---------------------------- MODULE Spec2Model ----------------------------
(***************************************************************************)
(* A model of vcs/traverse.py (code-change-miner): GitAnalyzer, the worker *)
(* pool that runs one _get_commit_change_graphs task per commit,           *)
(* ASTMethodExtractor and Method.                                          *)
(*                                                                         *)
(* Text is a sequence of one-character strings.  In the sample sources one *)
(* character stands for one lexical token of the Python text: "d" is       *)
(* `def`, "c" is `class`, "i" is `if`, "p" is `pass`, a letter after "d"   *)
(* or "c" is the name.  Line ends and blanks are the real characters.      *)
(***************************************************************************)
EXTENDS Integers, Sequences, FiniteSets, TLC

(***************************************************************************)
(* Bounds of the model.                                                    *)
(***************************************************************************)
\* Largest number of statements of a generated syntax tree.
MaxNodes == 4
\* Largest flush threshold tried for settings 'store_interval'.
MaxStoreInterval == 3
\* Largest number of pool processes (multiprocessing.cpu_count()).
MaxCpu == 2

\* maxtasksperchild of the pool built by build_change_graphs.
maxtasksperchild == 1000

(***************************************************************************)
(* Text helpers: str.strip, str.endswith, slices, splitlines.              *)
(***************************************************************************)
Min(a, b) == IF a <= b THEN a ELSE b

IsSpace(c) == c \in {" ", "\n"}

RECURSIVE LStrip(_)
LStrip(s) == IF s # <<>> /\ IsSpace(Head(s)) THEN LStrip(Tail(s)) ELSE s

RECURSIVE RStrip(_)
RStrip(s) ==
    IF s # <<>> /\ IsSpace(s[Len(s)]) THEN RStrip(SubSeq(s, 1, Len(s) - 1)) ELSE s

\* str.strip()
Strip(s) == RStrip(LStrip(s))

\* str.endswith(suffix)
EndsWith(s, suffix) ==
    /\ Len(suffix) <= Len(s)
    /\ SubSeq(s, Len(s) - Len(suffix) + 1, Len(s)) = suffix

\* s[a:b] for 0 <= a, 0 <= b: a slice never raises.
Slice(s, a, b) == SubSeq(s, a + 1, Min(b, Len(s)))

\* s[a:]
SliceFrom(s, a) == SubSeq(s, a + 1, Len(s))

RECURSIVE SplitLinesAcc(_, _, _)
SplitLinesAcc(s, cur, acc) ==
    IF s = <<>> THEN (IF cur = <<>> THEN acc ELSE Append(acc, cur))
    ELSE IF Head(s) = "\n" THEN SplitLinesAcc(Tail(s), <<>>, Append(acc, Append(cur, "\n")))
    ELSE SplitLinesAcc(Tail(s), Append(cur, Head(s)), acc)

\* ast._splitlines_no_ff: the lines of the text, line ends kept.
SplitLines(s) == SplitLinesAcc(s, <<>>, <<>>)

RECURSIVE Concat(_)
Concat(ss) == IF ss = <<>> THEN <<>> ELSE Head(ss) \o Concat(Tail(ss))

(***************************************************************************)
(* Syntax trees.  A node carries the position ast.parse gives it: lineno   *)
(* counts from 1, col_offset from 0.                                       *)
(***************************************************************************)
Node(kind, name, body, lineno, col, end_lineno, end_col) ==
    [kind |-> kind, name |-> name, body |-> body, lineno |-> lineno,
     col_offset |-> col, end_lineno |-> end_lineno, end_col_offset |-> end_col]

\* An optional text: the value of a call that may return None.
Some(t) == [ok |-> TRUE, text |-> t]
None == [ok |-> FALSE, text |-> <<>>]

\* Python truth of an optional text: None and '' are false.
Truthy(o) == o.ok /\ o.text # <<>>

(***************************************************************************)
(* class Method                                                            *)
(***************************************************************************)
\* Method.__init__: the full source is kept stripped.
Method(path, name, ast, src) ==
    [file_path |-> path, ast |-> ast, src |-> Strip(src), name |-> name,
     full_name |-> name]

\* A slip of extend_path: the prefix is put after the name.
extend_path_suffix(method, prefix, separator) ==
    [method EXCEPT !.full_name = @ \o separator \o prefix]

\* Method.extend_path
extend_path(method, prefix, separator) ==
    [method EXCEPT !.full_name = prefix \o separator \o @]

\* ast.get_source_segment(source, node): [raised |-> TRUE] is the IndexError
\* of a line number past the last line of the text.
get_source_segment(source, node) ==
    LET lines == SplitLines(source)
        lineno == node.lineno - 1
        end_lineno == node.end_lineno - 1
        Raised == [raised |-> TRUE, text |-> <<>>]
        Value(t) == [raised |-> FALSE, text |-> t]
    IN  IF end_lineno = lineno
        THEN IF lineno + 1 > Len(lines) THEN Raised
             ELSE Value(Slice(lines[lineno + 1], node.col_offset, node.end_col_offset))
        ELSE IF lineno + 1 > Len(lines) \/ end_lineno + 1 > Len(lines) THEN Raised
             ELSE Value(SliceFrom(lines[lineno + 1], node.col_offset)
                        \o Concat(SubSeq(lines, lineno + 2, end_lineno))
                        \o Slice(lines[end_lineno + 1], 0, node.end_col_offset))

\* Method.get_source: any exception of the segment lookup gives None.
get_source(method) ==
    LET r == get_source_segment(method.src, method.ast)
    IN  IF r.raised THEN None ELSE Some(r.text)

(***************************************************************************)
(* class ASTMethodExtractor.  A visit that returns None (generic_visit)    *)
(* is the empty list: both are false in `if result`.                       *)
(***************************************************************************)
\* visit_FunctionDef
visit_FunctionDef(path, src, node) == << Method(path, node.name, node, src) >>

RECURSIVE visit(_, _, _)
RECURSIVE visit_body(_, _, _)
\* The loop shared by visit_Module and visit_ClassDef: methods += result.
visit_body(path, src, body) ==
    IF body = <<>> THEN <<>>
    ELSE visit(path, src, Head(body)) \o visit_body(path, src, Tail(body))

\* visit_ClassDef
visit_ClassDef(path, src, node) ==
    LET methods == visit_body(path, src, node.body)
    IN  [i \in 1..Len(methods) |-> extend_path(methods[i], node.name, <<".">>)]

\* visit_Module
visit_Module(path, src, node) == visit_body(path, src, node.body)

\* NodeVisitor.visit: dispatch on the node's class.
visit(path, src, node) ==
    CASE node.kind = "Module" -> visit_Module(path, src, node)
      [] node.kind = "ClassDef" -> visit_ClassDef(path, src, node)
      [] node.kind = "FunctionDef" -> visit_FunctionDef(path, src, node)
      [] OTHER -> <<>>


\* GitAnalyzer._extract_methods.  A source is a text together with what
\* ast.parse makes of it: parses = FALSE when ast.parse raises.
Source(text, tree) == [text |-> text, parses |-> TRUE, tree |-> tree]
Unparsable(text) == [text |-> text, parses |-> FALSE, tree |-> <<>>]

_extract_methods(file_path, src) ==
    IF ~src.parses THEN <<>>
    ELSE visit(file_path, src.text, src.tree)

(***************************************************************************)
(* Generated sources: every module of at most MaxNodes statements, one     *)
(* statement a line, a body indented by one blank.                         *)
(***************************************************************************)
FunNames == {<<"r">>, <<"s">>}
ClassNames == {<<"O">>, <<"I">>}

FunctionDef(name, line, col) ==
    Node("FunctionDef", name, <<>>, line, col, line, col + 3 + Len(name))
Pass(line, col) == Node("Pass", <<>>, <<>>, line, col, line, col + 1)
Compound(kind, name, body, line, col) ==
    Node(kind, name, body, line, col, body[Len(body)].end_lineno,
         body[Len(body)].end_col_offset)

RECURSIVE TreesAt(_, _, _)
RECURSIVE ForestsAt(_, _, _)
\* The statements of exactly k nodes whose first line is `line`.
TreesAt(k, line, col) ==
    IF k = 1
    THEN {FunctionDef(n, line, col) : n \in FunNames} \cup {Pass(line, col)}
    ELSE {Compound("ClassDef", c, b, line, col) :
              c \in ClassNames, b \in ForestsAt(k - 1, line + 1, col + 1)}
         \cup {Compound("If", <<>>, b, line, col) :
                   b \in ForestsAt(k - 1, line + 1, col + 1)}

\* The statement lists of exactly k nodes in all.
ForestsAt(k, line, col) ==
    IF k = 0 THEN {<<>>}
    ELSE UNION {{<<t>> \o f : t \in TreesAt(j, line, col),
                               f \in ForestsAt(k - j, line + j, col)} : j \in 1..k}

Blanks(n) == [i \in 1..n |-> " "]

RECURSIVE Unparse(_)
\* The text of a statement list.
Unparse(body) ==
    IF body = <<>> THEN <<>>
    ELSE LET st == Head(body)
             header == CASE st.kind = "FunctionDef" -> <<"d">> \o st.name \o <<":", "p">>
                         [] st.kind = "ClassDef" -> <<"c">> \o st.name \o <<":">>
                         [] st.kind = "If" -> <<"i", ":">>
                         [] OTHER -> <<"p">>
         IN  Blanks(st.col_offset) \o header \o <<"\n">> \o Unparse(st.body)
             \o Unparse(Tail(body))

Module(body) ==
    Node("Module", <<>>, body, 0, 0, 0, 0)

\* The most blank lines a generated source begins with.
MaxBlankLines == 1

\* The sources: a number of blank lines, then the text of a statement list
\* whose nodes have the line numbers the parser gives them in that text.
GeneratedSources ==
    UNION {{Source([i \in 1..blank |-> "\n"] \o Unparse(b), Module(b)) :
                b \in UNION {ForestsAt(k, 1 + blank, 0) : k \in 0..MaxNodes}} :
           blank \in 0..MaxBlankLines}

(***************************************************************************)
(* Sample sources of the commits the pool works on.  DefLine is a one-line *)
(* function `def name(): v`.                                               *)
(***************************************************************************)
DefLine(name, v, col) == Blanks(col) \o <<"d">> \o name \o <<":", v>>

RECURSIVE JoinLines(_)
JoinLines(ls) ==
    IF Len(ls) <= 1 THEN Concat(ls)
    ELSE Head(ls) \o <<"\n">> \o JoinLines(Tail(ls))

nf == <<"f">>
ng == <<"g">>
nh == <<"h">>
nA == <<"A">>

\* def f(): v
SrcF(v) == Source(DefLine(nf, v, 0), Module(<<FunctionDef(nf, 1, 0)>>))

\* three functions f, g, h
SrcFGH(v) ==
    Source(JoinLines(<<DefLine(nf, v, 0), DefLine(ng, v, 0), DefLine(nh, v, 0)>>),
           Module(<<FunctionDef(nf, 1, 0), FunctionDef(ng, 2, 0),
                    FunctionDef(nh, 3, 0)>>))

\* class A with method f
SrcClass(v) ==
    Source(JoinLines(<<<<"c">> \o nA \o <<":">>, DefLine(nf, v, 1)>>),
           Module(<<Compound("ClassDef", nA, <<FunctionDef(nf, 2, 1)>>, 1, 0)>>))

\* a function whose body is on a second line
SrcTwoLines(v) ==
    Source(JoinLines(<<<<"d">> \o nf \o <<":">>, <<" ", v>>>>),
           Module(<<Node("FunctionDef", nf, <<>>, 1, 0, 2, 2)>>))

\* a blank first line, then def f(): v
SrcBlankF(v) ==
    Source(JoinLines(<<<<>>, DefLine(nf, v, 0)>>), Module(<<FunctionDef(nf, 2, 0)>>))

\* a blank first line, then f and g
SrcBlankFG(v) ==
    Source(JoinLines(<<<<>>, DefLine(nf, v, 0), DefLine(ng, v, 0)>>),
           Module(<<FunctionDef(nf, 2, 0), FunctionDef(ng, 3, 0)>>))

\* a blank first line, class A with method f, then a statement
SrcBlankClass(v) ==
    Source(JoinLines(<<<<>>, <<"c">> \o nA \o <<":">>, DefLine(nf, v, 1), <<"p">>>>),
           Module(<<Compound("ClassDef", nA, <<FunctionDef(nf, 3, 1)>>, 2, 0),
                    Pass(4, 0)>>))

\* f defined twice
SrcDup(v) ==
    Source(JoinLines(<<DefLine(nf, "1", 0), DefLine(nf, v, 0)>>),
           Module(<<FunctionDef(nf, 1, 0), FunctionDef(nf, 2, 0)>>))

\* a text ast.parse rejects
SrcBad == Unparsable(<<"d", "(">>)

\* no text: source_code of an added, deleted or binary file is None, and
\* ast.parse(None) raises
SrcNone == Unparsable(<<>>)

PathPy(n) == n \o <<".", "p", "y">>
PathTxt(n) == n \o <<".", "t", "x", "t">>
\* old_path of an added file, new_path of a deleted one
NoPath == <<>>

\* The modification objects pydriller yields.
Modification(change_type, old_path, before, new_path, after) ==
    [change_type |-> change_type, old_path |-> old_path,
     source_code_before |-> before, new_path |-> new_path, source_code |-> after]

Modify(path, before, after) == Modification("MODIFY", path, before, path, after)

na == <<"a">>
nb == <<"b">>

\* The modification lists of the sample commits.
ModsOnePair == <<Modify(PathPy(na), SrcF("1"), SrcF("2"))>>
ModsThreePairs == <<Modify(PathPy(na), SrcFGH("1"), SrcFGH("2"))>>
ModsFourPairs ==
    <<Modify(PathPy(na), SrcF("1"), SrcF("2")),
      Modify(PathPy(nb), SrcFGH("1"), SrcFGH("2"))>>
ModsUnchanged ==
    <<Modify(PathPy(na), SrcF("1"), SrcF("1")),
      Modify(PathPy(nb), SrcClass("1"), SrcClass("2"))>>
ModsParseFailure ==
    <<Modify(PathPy(na), SrcBad, SrcF("2")),
      Modify(PathPy(nb), SrcF("1"), SrcNone),
      Modify(PathPy(nf), SrcTwoLines("1"), SrcTwoLines("2"))>>
ModsSpanFailure ==
    <<Modify(PathPy(na), SrcBlankF("1"), SrcF("2")),
      Modify(PathPy(nb), SrcBlankClass("1"), SrcBlankClass("2")),
      Modify(PathPy(nf), SrcBlankFG("1"), SrcBlankFG("2")),
      Modify(PathPy(ng), SrcF("1"), SrcF("2"))>>
ModsFiltered ==
    <<Modification("ADD", NoPath, SrcNone, PathPy(na), SrcF("1")),
      Modify(PathTxt(nb), SrcF("1"), SrcF("2")),
      Modification("RENAME", PathPy(nf), SrcF("1"), PathPy(nA), SrcF("2")),
      Modification("DELETE", PathPy(ng), SrcF("1"), NoPath, SrcNone),
      Modify(PathPy(nh), SrcF("1"), SrcF("2"))>>
ModsDuplicates ==
    <<Modify(PathPy(na), SrcDup("1"), SrcDup("2"))>>

(***************************************************************************)
(* The state.                                                              *)
(***************************************************************************)
VARIABLES
    \* The environment, fixed during a run.
    listing,          \* os.listdir(GIT_REPOSITORIES_DIR): [ok, names]
    history,          \* per directory, the commits traverse_commits() yields
    remote,           \* per directory, git config --get remote.origin.url:
                      \* [returncode, stdout]
    store_interval,   \* GitAnalyzer.STORE_INTERVAL
    tasks_per_child,  \* the pool's maxtasksperchild
    cpu_count,        \* multiprocessing.cpu_count()
    \* The main process (build_change_graphs).
    main,             \* [pc, repo_names, repo_num, commits]
    pool,             \* [state, taskqueue, number_left, success]
    \* The pool's worker processes, each running _get_commit_change_graphs.
    procs,
    storage,          \* STORAGE_DIR: file name -> the pickled list of graphs
    trace,            \* what has happened: tasks begun, extractions, builder calls
    \* The extraction of one source (specification SpecExtract).
    xsrc, xmethods, xpc,
    \* The matching of the methods of two sources (specification SpecMatch):
    \* xsrc is the old text, xnew the new one, xmapping the matcher's dict.
    xnew, xmapping

envVars == <<listing, history, remote, store_interval, tasks_per_child, cpu_count>>
runVars == <<main, pool, procs, storage, trace>>
xVars == <<xsrc, xmethods, xpc, xnew, xmapping>>
vars == <<envVars, runVars, xVars>>

GIT_REPOSITORIES_DIR == <<"/", "g">>

\* The most storage failures (open or pickle.dump raising) of one run.
MaxStoreFailures == 1

Event(ev, pid, commit, mod, pair, method, line, old, new) ==
    [ev |-> ev, pid |-> pid, repo |-> commit.repo.name, hash |-> commit.hash,
     mod |-> mod, pair |-> pair, method |-> method, line |-> line,
     old |-> old, new |-> new]

StoreFailures == Cardinality({e \in trace : e.ev = "store_failed"})

(***************************************************************************)
(* GitAnalyzer._extract_commits                                            *)
(***************************************************************************)
\* os.path.join(GIT_REPOSITORIES_DIR, repo_name)
repo_path(repo_name) == GIT_REPOSITORIES_DIR \o <<"/">> \o repo_name

\* _get_repo_url: the output of git, stripped.  subprocess.run is called
\* without check, so the exit status of git is not looked at: when there is
\* no remote.origin.url git prints nothing and the result is the empty string.
_get_repo_url(repo_name) == Strip(remote[repo_name].stdout)

\* A slip of the record: the texts are left with the mining session.
cut_modification_lazy(m) ==
    [type |-> m.change_type, old_src |-> SrcNone,
     old_path |-> m.old_path, new_src |-> SrcNone, new_path |-> m.new_path]

\* The dict built for one modification.
cut_modification(m) ==
    [type |-> m.change_type, old_src |-> m.source_code_before,
     old_path |-> m.old_path, new_src |-> m.source_code, new_path |-> m.new_path]

\* The dict built for one commit.
cut(commit, num, repo_name) ==
    [num |-> num, hash |-> commit.hash, msg |-> commit.msg,
     modifications |-> [i \in 1..Len(commit.modifications) |->
                            cut_modification(commit.modifications[i])],
     repo |-> [name |-> repo_name, path |-> repo_path(repo_name),
               url |-> _get_repo_url(repo_name)]]

\* A slip of the parents test: root commits are kept.
HasParentsAlways(commit) == TRUE

\* `if not commit.parents: continue`
HasParents(commit) == commit.parents # 0

RECURSIVE extract_loop(_, _, _)
extract_loop(commits, rest, repo_name) ==
    IF rest = <<>> THEN commits
    ELSE IF ~HasParents(Head(rest)) THEN extract_loop(commits, Tail(rest), repo_name)
    ELSE extract_loop(Append(commits, cut(Head(rest), Len(commits) + 1, repo_name)),
                      Tail(rest), repo_name)

_extract_commits(repo_name) == extract_loop(<<>>, history[repo_name], repo_name)

(***************************************************************************)
(* GitAnalyzer._get_methods_mapping: a dict from old Method to new Method, *)
(* kept as the list of its items in insertion order.  A Method is a key by *)
(* identity; two Methods of one file differ in their syntax node.          *)
(***************************************************************************)
DictSet(d, k, v) ==
    IF \E i \in 1..Len(d) : d[i][1] = k
    THEN [i \in 1..Len(d) |-> IF d[i][1] = k THEN <<k, v>> ELSE d[i]]
    ELSE Append(d, <<k, v>>)

\* The places in a list of Methods of those with the qualified name q.
NamedAt(methods, q) == {j \in 1..Len(methods) : methods[j].full_name = q}

\* A slip of the matcher: the first new Method of the name is kept.
mapping_inner_first(d, old_method, new_methods) ==
    LET at == NamedAt(new_methods, old_method.full_name)
    IN  IF at = {} THEN d
        ELSE DictSet(d, old_method, new_methods[CHOOSE j \in at : \A k \in at : j <= k])

RECURSIVE mapping_inner(_, _, _)
mapping_inner(d, old_method, new_methods) ==
    IF new_methods = <<>> THEN d
    ELSE mapping_inner(IF old_method.full_name = Head(new_methods).full_name
                       THEN DictSet(d, old_method, Head(new_methods)) ELSE d,
                       old_method, Tail(new_methods))

RECURSIVE mapping_outer(_, _, _)
mapping_outer(d, old_methods, new_methods) ==
    IF old_methods = <<>> THEN d
    ELSE mapping_outer(mapping_inner(d, Head(old_methods), new_methods),
                       Tail(old_methods), new_methods)

_get_methods_mapping(old_methods, new_methods) ==
    mapping_outer(<<>>, old_methods, new_methods)

(***************************************************************************)
(* GitAnalyzer._get_commit_change_graphs, run by pool process w, in steps: *)
(* BeginCommit, ModStep (one modification), PairStep (one pair up to the   *)
(* temporary files), BuildStep (the builder call and the flush at the      *)
(* threshold), FinalFlush (the flush of the remainder and the return).     *)
(***************************************************************************)
Pid(w) == <<w, procs[w].pid>>

\* The commit dict of the call in progress.
Commit(w) == Head(procs[w].chunk)

IdleProc(pid) ==
    [pid |-> pid, completed |-> 0, pc |-> "idle", chunk |-> <<>>,
     change_graphs |-> <<>>, mod |-> 0, pairs |-> <<>>, pair |-> 0,
     temps |-> <<>>, raised |-> FALSE, files |-> 0]

\* A slip of the modification filter: the change type is not looked at.
IsTargetAnyType(mod) ==
    EndsWith(mod.old_path, <<".", "p", "y">>) /\ EndsWith(mod.new_path, <<".", "p", "y">>)

\* The two `continue`s on a modification: it is worked on only when this holds.
IsTarget(mod) ==
    /\ mod.type = "MODIFY"
    /\ EndsWith(mod.old_path, <<".", "p", "y">>)
    /\ EndsWith(mod.new_path, <<".", "p", "y">>)

\* A slip of the source filter: a missing or empty source is let through.
PassesSourceFilterNoTruth(old_method_src, new_method_src) ==
    old_method_src # new_method_src

\* A slip of the source filter: equal sources are let through.
PassesSourceFilterNoEq(old_method_src, new_method_src) ==
    Truthy(old_method_src) /\ Truthy(new_method_src)

\* The `continue` on a pair: it goes to the builder only when this holds.
PassesSourceFilter(old_method_src, new_method_src) ==
    ~(~(Truthy(old_method_src) /\ Truthy(new_method_src))
      \/ old_method_src = new_method_src)

\* A slip of the threshold test: the flush comes one graph late.
FlushDueLate(change_graphs) == Len(change_graphs) > store_interval

\* len(change_graphs) >= STORE_INTERVAL
FlushDue(change_graphs) == Len(change_graphs) >= store_interval

\* A slip of the last flush: taken only at the threshold.
FinalFlushDueAtThreshold(change_graphs) == Len(change_graphs) >= store_interval

\* A slip of the last flush: taken also with an empty list.
FinalFlushDueAlways(change_graphs) == TRUE

\* `if change_graphs:` after the loops
FinalFlushDue(change_graphs) == change_graphs # <<>>

\* A slip of the `except` branch: `break` for `continue`, the rest of the
\* pairs of the modification is skipped.
AfterBuilderErrorBreak(p) ==
    [p EXCEPT !.temps = <<>>, !.pair = Len(p.pairs) + 1, !.pc = "pair"]

\* A slip of the `except` branch: the temporary files outlive the pair.
AfterBuilderErrorLeak(p) ==
    [p EXCEPT !.pair = @ + 1, !.pc = "pair"]

\* lines 136-143: the builder raised; after the log line, `continue` leaves
\* the `with` block and goes to the next pair.
AfterBuilderError(p) ==
    [p EXCEPT !.temps = <<>>, !.pair = @ + 1, !.pc = "pair"]

\* The graph changegraph.build_from_files returns for the pair in progress: an
\* opaque object, told apart by the call that made it.
build_from_files(w) ==
    [repo |-> Commit(w).repo.name, hash |-> Commit(w).hash,
     mod |-> procs[w].mod, pair |-> procs[w].pair]

\* A slip of the file name: a counter that each process keeps for itself.
uuid4_counter(w) == <<0, 0, procs[w].files + 1>>

\* A slip of the file name: a counter of the pool slot, which a recycled
\* process starts again.
uuid4_per_slot(w) == <<w, 0, procs[w].files + 1>>

\* uuid.uuid4().hex in process w.  uuid4 is taken never to repeat: the name is
\* the process and the number of names it has drawn.
uuid4(w) == <<w, procs[w].pid, procs[w].files + 1>>

\* _store_change_graphs when it succeeds: STORAGE_DIR with the file of a new
\* name holding the pickled list (mode 'w+b' replaces a file of that name).
\* `pid` notes the writing process, as the log line does.
_store_change_graphs(w, graphs) ==
    LET filename == uuid4(w)
    IN  [f \in DOMAIN storage \cup {filename} |->
            IF f = filename THEN [pid |-> Pid(w), graphs |-> graphs] ELSE storage[f]]

\* The heads of the states a worker step may start from.
Running(w, pc) == pool.state = "running" /\ procs[w].pc = pc

\* lines 93-95
BeginCommit(w) ==
    /\ Running(w, "begin")
    /\ procs' = [procs EXCEPT ![w].change_graphs = <<>>, ![w].mod = 1,
                              ![w].pc = "mod"]
    /\ trace' = trace \cup
           {Event("task", Pid(w), Commit(w), 0, 0, <<>>, 0, <<>>, <<>>)}
    /\ UNCHANGED <<envVars, main, pool, storage, xVars>>

\* lines 97-107: one turn of the loop over the modifications
ModStep(w) ==
    LET p == procs[w]
        mods == Commit(w).modifications
    IN  /\ Running(w, "mod")
        /\ IF p.mod > Len(mods)
           THEN /\ procs' = [procs EXCEPT ![w].pc = "flush"]
                /\ UNCHANGED trace
           ELSE IF ~IsTarget(mods[p.mod])
           THEN /\ procs' = [procs EXCEPT ![w].mod = @ + 1]
                /\ UNCHANGED trace
           ELSE LET mod == mods[p.mod]
                    old_method_to_new ==
                        _get_methods_mapping(
                            _extract_methods(mod.old_path, mod.old_src),
                            _extract_methods(mod.new_path, mod.new_src))
                IN  /\ procs' = [procs EXCEPT ![w].pairs = old_method_to_new,
                                              ![w].pair = 1, ![w].pc = "pair"]
                    /\ trace' = trace \cup
                           {Event("extract", Pid(w), Commit(w), p.mod, 0, <<>>, 0,
                                  <<>>, <<>>)}
        /\ UNCHANGED <<envVars, main, pool, storage, xVars>>

\* lines 109-122: one turn of the loop over the pairs, up to the two
\* temporary files
PairStep(w) ==
    LET p == procs[w]
    IN  /\ Running(w, "pair")
        /\ IF p.pair > Len(p.pairs)
           THEN procs' = [procs EXCEPT ![w].pairs = <<>>, ![w].pair = 0,
                                       ![w].mod = @ + 1, ![w].pc = "mod"]
           ELSE LET old_method_src == get_source(p.pairs[p.pair][1])
                    new_method_src == get_source(p.pairs[p.pair][2])
                IN  IF ~PassesSourceFilter(old_method_src, new_method_src)
                    THEN procs' = [procs EXCEPT ![w].pair = @ + 1]
                    ELSE procs' = [procs EXCEPT
                                      ![w].temps = <<old_method_src.text,
                                                     new_method_src.text>>,
                                      ![w].pc = "build"]
        /\ UNCHANGED <<envVars, main, pool, storage, trace, xVars>>

\* lines 124-149: the builder call, the append and the flush at the
\* threshold; leaving the `with` block releases both temporary files
BuildStep(w) ==
    LET p == procs[w]
        old_method == p.pairs[p.pair][1]
        ev(kind) == Event(kind, Pid(w), Commit(w), p.mod, p.pair,
                          old_method.full_name, old_method.ast.lineno,
                          p.temps[1], p.temps[2])
        change_graphs == Append(p.change_graphs, build_from_files(w))
        on(graphs) == [p EXCEPT !.change_graphs = graphs, !.temps = <<>>,
                                !.pair = @ + 1, !.pc = "pair"]
    IN  /\ Running(w, "build")
        /\ \/ \* the builder raises: logged, the pair is dropped
              /\ procs' = [procs EXCEPT ![w] = AfterBuilderError(p)]
              /\ trace' = trace \cup {ev("build_error")}
              /\ UNCHANGED storage
           \/ \* a graph, below the threshold
              /\ ~FlushDue(change_graphs)
              /\ procs' = [procs EXCEPT ![w] = on(change_graphs)]
              /\ trace' = trace \cup {ev("build")}
              /\ UNCHANGED storage
           \/ \* a graph that fills the buffer: stored, the buffer cleared
              /\ FlushDue(change_graphs)
              /\ storage' = _store_change_graphs(w, change_graphs)
              /\ procs' = [procs EXCEPT ![w] = [on(<<>>) EXCEPT !.files = @ + 1]]
              /\ trace' = trace \cup {ev("build")}
           \/ \* a graph that fills the buffer, and the store raises
              /\ FlushDue(change_graphs)
              /\ StoreFailures < MaxStoreFailures
              /\ procs' = [procs EXCEPT ![w].change_graphs = change_graphs,
                                        ![w].temps = <<>>, ![w].raised = TRUE,
                                        ![w].pc = "result"]
              /\ trace' = trace \cup {ev("build"), ev("store_failed")}
              /\ UNCHANGED storage
        /\ UNCHANGED <<envVars, main, pool, xVars>>

\* The process after the call returned: mapstar goes on to the next commit
\* of its chunk, or hands the chunk's result back.
Returned(w) ==
    [procs[w] EXCEPT !.chunk = Tail(@), !.change_graphs = <<>>, !.mod = 0,
                     !.pc = IF Tail(procs[w].chunk) = <<>> THEN "result"
                            ELSE "begin"]

\* lines 151-152 and the return
FinalFlush(w) ==
    LET p == procs[w]
        done == Event("returned", Pid(w), Commit(w), 0, 0, <<>>, 0, <<>>, <<>>)
        failed == Event("store_failed", Pid(w), Commit(w), 0, 0, <<>>, 0, <<>>, <<>>)
    IN  /\ Running(w, "flush")
        /\ \/ \* nothing left in the buffer
              /\ ~FinalFlushDue(p.change_graphs)
              /\ procs' = [procs EXCEPT ![w] = Returned(w)]
              /\ trace' = trace \cup {done}
              /\ UNCHANGED storage
           \/ \* the remainder is stored
              /\ FinalFlushDue(p.change_graphs)
              /\ storage' = _store_change_graphs(w, p.change_graphs)
              /\ procs' = [procs EXCEPT ![w] = [Returned(w) EXCEPT !.files = @ + 1]]
              /\ trace' = trace \cup {done}
           \/ \* the store raises
              /\ FinalFlushDue(p.change_graphs)
              /\ StoreFailures < MaxStoreFailures
              /\ procs' = [procs EXCEPT ![w].raised = TRUE, ![w].pc = "result"]
              /\ trace' = trace \cup {failed}
              /\ UNCHANGED storage
        /\ UNCHANGED <<envVars, main, pool, xVars>>

(***************************************************************************)
(* multiprocessing.Pool as build_change_graphs uses it: pool.map cuts the  *)
(* commits into chunks, a process takes a chunk, runs the task on each     *)
(* commit of it and puts one result; map returns when every chunk has its  *)
(* result, and raises when a task raised.                                  *)
(***************************************************************************)
\* Pool._map_async: the chunk size for n items.
chunksize(n) ==
    IF n % (cpu_count * 4) # 0 THEN n \div (cpu_count * 4) + 1
    ELSE n \div (cpu_count * 4)

RECURSIVE get_tasks(_, _)
\* Pool._get_tasks: the items in chunks of `size`.
get_tasks(items, size) ==
    IF items = <<>> THEN <<>>
    ELSE <<SubSeq(items, 1, Min(size, Len(items)))>>
         \o get_tasks(SubSeq(items, Min(size, Len(items)) + 1, Len(items)), size)

\* A pool process takes the next chunk of the task queue.
GetTask(w) ==
    /\ Running(w, "idle")
    /\ procs[w].completed < tasks_per_child
    /\ pool.taskqueue # <<>>
    /\ procs' = [procs EXCEPT ![w].chunk = Head(pool.taskqueue), ![w].pc = "begin"]
    /\ pool' = [pool EXCEPT !.taskqueue = Tail(@)]
    /\ UNCHANGED <<envVars, main, storage, trace, xVars>>

\* The process puts the chunk's result: the exception of the task that
\* raised (the rest of the chunk is not run), or the list of return values.
PutResult(w) ==
    /\ Running(w, "result")
    /\ pool' = [pool EXCEPT !.number_left = @ - 1,
                            !.success = @ /\ ~procs[w].raised]
    /\ procs' = [procs EXCEPT ![w] = [IdleProc(procs[w].pid) EXCEPT
                                         !.completed = procs[w].completed + 1,
                                         !.files = procs[w].files]]
    /\ UNCHANGED <<envVars, main, storage, trace, xVars>>

\* maxtasksperchild: a process that has completed that many chunks exits and
\* the pool starts a new one in its place.
Recycle(w) ==
    /\ Running(w, "idle")
    /\ procs[w].completed >= tasks_per_child
    /\ procs' = [procs EXCEPT ![w] = IdleProc(procs[w].pid + 1)]
    /\ UNCHANGED <<envVars, main, pool, storage, trace, xVars>>

(***************************************************************************)
(* GitAnalyzer.build_change_graphs (the main process)                      *)
(***************************************************************************)
\* A slip of the listing filter: the excluded directories are kept.
IsRepoNameAll(name) == TRUE

\* `if not name.startswith('_')`
IsRepoName(name) == ~(name # <<>> /\ Head(name) = "_")

NoPool == [state |-> "none", taskqueue |-> <<>>, number_left |-> 0, success |-> TRUE]

\* line 24-25: the listing, then the pool is started
ListRepos ==
    /\ main.pc = "start"
    /\ \/ /\ listing.ok
          /\ main' = [main EXCEPT !.pc = "repo", !.repo_num = 0,
                         !.repo_names = SelectSeq(listing.names, IsRepoName)]
          /\ pool' = [pool EXCEPT !.state = "running"]
          /\ procs' = [w \in 1..cpu_count |-> IdleProc(1)]
       \/ \* os.listdir raises
          /\ ~listing.ok
          /\ main' = [main EXCEPT !.pc = "aborted"]
          /\ UNCHANGED <<pool, procs>>
    /\ UNCHANGED <<envVars, storage, trace, xVars>>

\* lines 26-29: the next repository's commits are extracted; after the last
\* repository the `with` block is left and the pool terminated
ExtractCommits ==
    /\ main.pc = "repo"
    /\ \/ /\ main.repo_num < Len(main.repo_names)
          /\ main' = [main EXCEPT !.pc = "map",
                         !.commits = _extract_commits(main.repo_names[main.repo_num + 1])]
          /\ UNCHANGED pool
       \/ /\ main.repo_num >= Len(main.repo_names)
          /\ main' = [main EXCEPT !.pc = "finished"]
          /\ pool' = [pool EXCEPT !.state = "terminated"]
    /\ UNCHANGED <<envVars, procs, storage, trace, xVars>>

\* line 32, the call: the chunks are queued
PoolMap ==
    /\ main.pc = "map"
    /\ LET chunks == get_tasks(main.commits, chunksize(Len(main.commits)))
       IN  pool' = [pool EXCEPT !.taskqueue = chunks, !.number_left = Len(chunks),
                                !.success = TRUE]
    /\ main' = [main EXCEPT !.pc = "wait"]
    /\ UNCHANGED <<envVars, procs, storage, trace, xVars>>

\* A slip of the wait: map returns when every chunk has been taken.
MapResultReadyEarly == pool.taskqueue = <<>>

\* pool.map blocks until the result of every chunk is in.
MapResultReady == pool.number_left = 0

\* line 32, the return: every chunk has its result.  When a task raised, map
\* raises it in the main process: the `with` block is left, Pool.__exit__
\* terminates the pool and build_change_graphs ends with the exception.
MapReturn ==
    /\ main.pc = "wait"
    /\ MapResultReady
    /\ \/ /\ pool.success
          /\ main' = [main EXCEPT !.pc = "repo", !.repo_num = @ + 1, !.commits = <<>>]
          /\ UNCHANGED pool
       \/ /\ ~pool.success
          /\ main' = [main EXCEPT !.pc = "aborted"]
          /\ pool' = [pool EXCEPT !.state = "terminated"]
    /\ UNCHANGED <<envVars, procs, storage, trace, xVars>>

Next ==
    \/ ListRepos
    \/ ExtractCommits
    \/ PoolMap
    \/ MapReturn
    \/ \E w \in DOMAIN procs : GetTask(w)
    \/ \E w \in DOMAIN procs : BeginCommit(w)
    \/ \E w \in DOMAIN procs : ModStep(w)
    \/ \E w \in DOMAIN procs : PairStep(w)
    \/ \E w \in DOMAIN procs : BuildStep(w)
    \/ \E w \in DOMAIN procs : FinalFlush(w)
    \/ \E w \in DOMAIN procs : PutResult(w)
    \/ \E w \in DOMAIN procs : Recycle(w)

(***************************************************************************)
(* The runs.                                                               *)
(***************************************************************************)
\* A commit object of the repository history.
VcsCommit(hash, parents, modifications) ==
    [hash |-> hash, parents |-> parents, msg |-> "m", modifications |-> modifications]

\* git config --get remote.origin.url of a repository with that remote, and
\* of one without (git prints nothing and exits with status 1).
RemoteResolved == [returncode |-> 0, stdout |-> <<"u", "\n">>]
RemoteUnresolved == [returncode |-> 1, stdout |-> <<>>]

\* A history: a root commit, then one commit for each modification list.
History(contents) ==
    <<VcsCommit(0, 0, <<Modification("ADD", NoPath, SrcNone, PathPy(na), SrcF("1"))>>)>>
    \o [i \in 1..Len(contents) |-> VcsCommit(i, 1, contents[i])]

SeqsUpTo(S, n) == UNION {[1..k -> S] : k \in 0..n}

r1 == <<"r", "1">>
r2 == <<"r", "2">>
excluded == <<"_", "x">>

InitRun ==
    /\ main = [pc |-> "start", repo_names |-> <<>>, repo_num |-> 0, commits |-> <<>>]
    /\ pool = NoPool
    /\ procs = <<>>
    /\ storage = <<>>
    /\ trace = {}

InitNoExtract ==
    /\ xsrc = SrcNone
    /\ xmethods = <<>>
    /\ xpc = "off"
    /\ xnew = SrcNone
    /\ xmapping = <<>>

\* One repository and one pool process, replaced after every chunk; the
\* commits are of the sample lists.
MaxTaskCommits == 1

TaskContents ==
    {ModsOnePair, ModsThreePairs, ModsFourPairs, ModsUnchanged, ModsParseFailure,
     ModsSpanFailure, ModsFiltered, ModsDuplicates}

InitTask ==
    /\ listing \in {[ok |-> TRUE, names |-> <<r1>>], [ok |-> FALSE, names |-> <<>>]}
    /\ history \in {[n \in {r1} |-> History(c)] : c \in SeqsUpTo(TaskContents, MaxTaskCommits)}
    /\ remote = [n \in {r1} |-> RemoteResolved]
    /\ store_interval \in 1..MaxStoreInterval
    /\ tasks_per_child = 1
    /\ cpu_count = 1
    /\ InitRun
    /\ InitNoExtract

SpecTask == InitTask /\ [][Next]_vars

\* Several repositories and pool processes, every recycle threshold.  The
\* first repository has one of the sample histories.
RootCommit(hash) ==
    VcsCommit(hash, 0, <<Modification("ADD", NoPath, SrcNone, PathPy(na), SrcF("1"))>>)

\* Two commits of one graph each.
HistoryTwo == History(<<ModsOnePair, ModsOnePair>>)

\* A second root (a branch with no common ancestor) and a merge commit.
HistoryMerge ==
    <<RootCommit(0), VcsCommit(1, 1, ModsFourPairs), RootCommit(2),
      VcsCommit(3, 2, ModsOnePair)>>

\* Five commits: more than four for each pool process when there is one
\* process, so that a chunk holds two commits.
HistoryFive == History([i \in 1..5 |-> IF i = 3 THEN ModsFiltered ELSE ModsOnePair])

PoolHistories == {<<>>, HistoryTwo, HistoryMerge, HistoryFive}

\* The history of the first repository with the number of pool processes:
\* the five commits are run by one process only.
PoolScenarios ==
    {hn \in PoolHistories \X (1..MaxCpu) : hn[1] = HistoryFive => hn[2] = 1}

InitPool ==
    /\ listing \in {[ok |-> TRUE, names |-> <<r1, excluded, r2>>],
                    [ok |-> FALSE, names |-> <<>>]}
    /\ \E hn \in PoolScenarios :
           /\ history = [n \in {r1, excluded, r2} |->
                            IF n = r1 THEN hn[1] ELSE History(<<ModsOnePair>>)]
           /\ cpu_count = hn[2]
    /\ remote \in {[n \in {r1, excluded, r2} |->
                       IF n = r1 THEN u ELSE RemoteResolved] :
                      u \in {RemoteResolved, RemoteUnresolved}}
    /\ store_interval \in {1, MaxStoreInterval}
    /\ tasks_per_child \in {1, 2, maxtasksperchild}
    /\ InitRun
    /\ InitNoExtract

SpecPool == InitPool /\ [][Next]_vars

(***************************************************************************)
(* The extraction of the methods of one generated source.                  *)
(***************************************************************************)
InitExtract ==
    /\ xsrc \in GeneratedSources
    /\ xmethods = <<>>
    /\ xpc = "ready"
    /\ xnew = SrcNone
    /\ xmapping = <<>>
    /\ listing = [ok |-> FALSE, names |-> <<>>]
    /\ history = <<>>
    /\ remote = <<>>
    /\ store_interval = 1
    /\ tasks_per_child = maxtasksperchild
    /\ cpu_count = 1
    /\ InitRun

\* _extract_methods(file_path, src) is called
ExtractStep ==
    /\ xpc = "ready"
    /\ xmethods' = _extract_methods(PathPy(na), xsrc)
    /\ xpc' = "done"
    /\ UNCHANGED <<xsrc, xnew, xmapping, envVars, runVars>>

SpecExtract == InitExtract /\ [][ExtractStep]_vars

(***************************************************************************)
(* The matching of the methods of an old and a new generated source, as    *)
(* lines 104-107 do it for one modification.                               *)
(***************************************************************************)
\* The most statements of a source that is matched.
MaxMatchNodes == 2

MatchSources ==
    {Source(Unparse(b), Module(b)) :
         b \in UNION {ForestsAt(k, 1, 0) : k \in 0..MaxMatchNodes}}

InitMatch ==
    /\ xsrc \in MatchSources
    /\ xnew \in MatchSources
    /\ xmethods = <<>>
    /\ xmapping = <<>>
    /\ xpc = "ready"
    /\ listing = [ok |-> FALSE, names |-> <<>>]
    /\ history = <<>>
    /\ remote = <<>>
    /\ store_interval = 1
    /\ tasks_per_child = maxtasksperchild
    /\ cpu_count = 1
    /\ InitRun

\* lines 104-107: both sides are extracted and matched
MatchStep ==
    /\ xpc = "ready"
    /\ xmapping' = _get_methods_mapping(_extract_methods(PathPy(na), xsrc),
                                        _extract_methods(PathPy(nb), xnew))
    /\ xpc' = "matched"
    /\ UNCHANGED <<xsrc, xnew, xmethods, envVars, runVars>>

SpecMatch == InitMatch /\ [][MatchStep]_vars

(***************************************************************************)
(* Claims.                                                                 *)
(***************************************************************************)
RECURSIVE EnclosingClasses(_, _, _)
\* The names of the classes around the node `target` of a statement list,
\* outermost first, read off the tree from the top down (a set: one list for
\* each place the node is at).
EnclosingClasses(body, target, outer) ==
    UNION {IF body[i] = target THEN {outer}
           ELSE EnclosingClasses(body[i].body, target,
                                 IF body[i].kind = "ClassDef"
                                 THEN Append(outer, body[i].name) ELSE outer) :
           i \in 1..Len(body)}

RECURSIVE Join(_, _)
Join(names, sep) ==
    IF Len(names) <= 1 THEN Concat(names)
    ELSE Head(names) \o sep \o Join(Tail(names), sep)

\* C9: every Method the extractor returns has as full_name the names of the
\* classes enclosing its node, outermost first, then its own name, joined
\* by '.'.
C9_QualifiedName ==
    xpc = "done" =>
        \A i \in 1..Len(xmethods) :
            LET m == xmethods[i]
                paths == EnclosingClasses(xsrc.tree.body, m.ast, <<>>)
            IN  /\ paths # {}
                /\ \A path \in paths : m.full_name = Join(Append(path, m.name), <<".">>)

\* C9 witness: class O containing class I containing r gives O.I.r.
C9_Witness ==
    /\ xpc = "done"
    /\ \E i \in 1..Len(xmethods) :
           /\ xmethods[i].full_name = <<"O", ".", "I", ".", "r">>
           /\ xmethods[i].name = <<"r">>

(***************************************************************************)
(* What the claims about a commit-task speak of.                           *)
(***************************************************************************)
Range(f) == {f[x] : x \in DOMAIN f}

\* The tasks that returned (without an exception).
ReturnedTasks == {e \in trace : e.ev = "returned"}

\* The events of kind ev of the task of commit `hash` of `repo`.
TaskEvents(ev, repo, hash) ==
    {e \in trace : e.ev = ev /\ e.repo = repo /\ e.hash = hash}

\* The commit object `hash` of the history of `repo`.
VcsCommitOf(repo, hash) == CHOOSE c \in Range(history[repo]) : c.hash = hash

\* Whether a modification object is a modified .py file on both sides.
ModifiedPy(m) ==
    /\ m.change_type = "MODIFY"
    /\ EndsWith(m.old_path, <<".", "p", "y">>)
    /\ EndsWith(m.new_path, <<".", "p", "y">>)

\* The matched pairs of a modification object.
PairsOf(m) ==
    _get_methods_mapping(_extract_methods(m.old_path, m.source_code_before),
                         _extract_methods(m.new_path, m.source_code))

\* Whether both spans of a pair are there, not empty, and differ.
SpansDiffer(pr) ==
    LET o == get_source(pr[1])
        n == get_source(pr[2])
    IN  o.ok /\ n.ok /\ o.text # <<>> /\ n.text # <<>> /\ o.text # n.text

\* The <<modification, pair>> numbers of a commit object whose pair passes
\* the source filter.
FilteredPairs(c) ==
    UNION {IF ModifiedPy(c.modifications[m])
           THEN LET ps == PairsOf(c.modifications[m])
                IN  {<<m, k>> : k \in {j \in 1..Len(ps) : SpansDiffer(ps[j])}}
           ELSE {} : m \in 1..Len(c.modifications)}

\* Whether pair k of modification m of commit object c passes the source
\* filter.
PairPasses(c, m, k) ==
    /\ m \in 1..Len(c.modifications)
    /\ ModifiedPy(c.modifications[m])
    /\ LET ps == PairsOf(c.modifications[m])
       IN  k \in 1..Len(ps) /\ SpansDiffer(ps[k])

GraphOf(repo, hash, m, k) == [repo |-> repo, hash |-> hash, mod |-> m, pair |-> k]

\* The places <<file, index>> of storage that hold graph g.
Places(g) ==
    {fi \in UNION {{<<f, i>> : i \in 1..Len(storage[f].graphs)} : f \in DOMAIN storage} :
        storage[fi[1]].graphs[fi[2]] = g}

\* The files written by the task of commit `hash` of `repo`.
FilesOfTask(repo, hash) ==
    {f \in DOMAIN storage :
        \E i \in 1..Len(storage[f].graphs) :
            storage[f].graphs[i].repo = repo /\ storage[f].graphs[i].hash = hash}

Ceil(k, n) == (k + n - 1) \div n

\* C1: a builder failure is contained in its pair.  A task is in the raised
\* state only by a storage failure of its own; and in every task that
\* returned, each pair that passes the source filter was handed to the
\* builder, with either the failure logged and no graph, or its graph stored.
C1_BuilderFailureContained ==
    /\ \A w \in DOMAIN procs :
           procs[w].raised =>
               \E e \in TaskEvents("store_failed", Commit(w).repo.name, Commit(w).hash) :
                   e.pid = Pid(w)
    /\ \A r \in ReturnedTasks :
           \A mk \in FilteredPairs(VcsCommitOf(r.repo, r.hash)) :
               LET g == GraphOf(r.repo, r.hash, mk[1], mk[2])
                   errors == {e \in TaskEvents("build_error", r.repo, r.hash) :
                                  e.mod = mk[1] /\ e.pair = mk[2]}
                   builds == {e \in TaskEvents("build", r.repo, r.hash) :
                                  e.mod = mk[1] /\ e.pair = mk[2]}
               IN  \/ errors # {} /\ builds = {} /\ Places(g) = {}
                   \/ errors = {} /\ builds # {} /\ Places(g) # {}

\* C1 witness: a task of three pairs returned, the builder raised for the
\* second, the graphs of the first and third are stored.
C1_Witness ==
    \E r \in ReturnedTasks :
        /\ FilteredPairs(VcsCommitOf(r.repo, r.hash)) = {<<1, 1>>, <<1, 2>>, <<1, 3>>}
        /\ \E e \in TaskEvents("build_error", r.repo, r.hash) : e.mod = 1 /\ e.pair = 2
        /\ Places(GraphOf(r.repo, r.hash, 1, 1)) # {}
        /\ Places(GraphOf(r.repo, r.hash, 1, 3)) # {}

\* The graphs the builder returned in the task of commit `hash` of `repo`.
BuiltInTask(repo, hash) ==
    {GraphOf(repo, hash, e.mod, e.pair) : e \in TaskEvents("build", repo, hash)}

\* Whether the files F, in the order they were written, hold K graphs in
\* pieces of N: each N graphs, the last one the rest.
InPiecesOf(F, K, N) ==
    /\ Cardinality(F) = Ceil(K, N)
    /\ \A f \in F :
           Len(storage[f].graphs) =
               IF \E h \in F : h[3] > f[3] THEN N
               ELSE IF K % N = 0 THEN N ELSE K % N

\* C3 as claimed: a pool process that is between tasks, and had no storage
\* failure, has written ceil(K/N) files for the K graphs of its lifetime, the
\* last one holding K mod N graphs (N when that is 0), the others N.
C3_PerWorkerLifetime ==
    \A w \in DOMAIN procs :
        (/\ procs[w].pc = "idle"
         /\ ~\E e \in trace : e.ev = "store_failed" /\ e.pid = Pid(w)) =>
            InPiecesOf({f \in DOMAIN storage : storage[f].pid = Pid(w)},
                       Cardinality({e \in trace : e.ev = "build" /\ e.pid = Pid(w)}),
                       store_interval)

\* C3 amended: the count is per commit-task.  A task that returned, in which
\* the builder returned K graphs, has written ceil(K/N) files, the last one
\* holding K mod N graphs (N when that is 0), the others N.
C3_PerTask ==
    \A r \in ReturnedTasks :
        InPiecesOf(FilesOfTask(r.repo, r.hash),
                   Cardinality(BuiltInTask(r.repo, r.hash)), store_interval)

\* C3 witness: a task with four graphs and threshold 3 returned, having
\* written a file of 3 and a file of 1.
C3_Witness ==
    \E r \in ReturnedTasks :
        /\ store_interval = 3
        /\ Cardinality(BuiltInTask(r.repo, r.hash)) = 4
        /\ {Len(storage[f].graphs) : f \in FilesOfTask(r.repo, r.hash)} = {1, 3}

\* Whether graph g was built before graph h in one task: the loops go
\* through the modifications, and in each through the pairs, in order.
BuiltBefore(g, h) == g.mod < h.mod \/ (g.mod = h.mod /\ g.pair < h.pair)

\* C4: no graph is lost or stored twice.  Every graph the builder returned in
\* a task that returned is at exactly one place of storage; no graph is at
\* two places; each file holds graphs of one task in the order they were
\* built, a later file later graphs; and a process that is not in a task
\* holds no graph.
C4_NoGraphLostOrDuplicated ==
    /\ \A r \in ReturnedTasks :
           \A g \in BuiltInTask(r.repo, r.hash) : Cardinality(Places(g)) = 1
    /\ \A f \in DOMAIN storage :
           LET gs == storage[f].graphs
           IN  /\ \A i \in 1..Len(gs) : Cardinality(Places(gs[i])) = 1
               /\ \A i, j \in 1..Len(gs) :
                      i < j => /\ gs[i].repo = gs[j].repo
                               /\ gs[i].hash = gs[j].hash
                               /\ BuiltBefore(gs[i], gs[j])
               /\ \A h \in DOMAIN storage :
                      (/\ storage[h].graphs[1].repo = gs[1].repo
                       /\ storage[h].graphs[1].hash = gs[1].hash
                       /\ f[3] < h[3] /\ f[1] = h[1] /\ f[2] = h[2]) =>
                          BuiltBefore(gs[Len(gs)], storage[h].graphs[1])
    /\ \A w \in DOMAIN procs :
           procs[w].pc \in {"idle", "begin"} => procs[w].change_graphs = <<>>

\* C4 witness: a task returned whose graphs are spread over two files, the
\* second one holding the remainder below the threshold.
C4_Witness ==
    \E r \in ReturnedTasks :
        /\ Cardinality(BuiltInTask(r.repo, r.hash)) = 3
        /\ store_interval = 2
        /\ Cardinality(FilesOfTask(r.repo, r.hash)) = 2
        /\ \A g \in BuiltInTask(r.repo, r.hash) : Cardinality(Places(g)) = 1

\* The builder calls made so far.
BuilderCalls == {e \in trace : e.ev \in {"build", "build_error"}}

\* C5: malformed source text stops nothing.  A modification with a side that
\* does not parse has no pair; a pair with a span that get_source could not
\* recover (None) never reaches the builder; no task is in the raised state
\* unless a store failed; and a task that returned has gone through every
\* modified .py file and handed every pair that passes the source filter to
\* the builder.
C5_MalformedSourceContained ==
    /\ \A w \in DOMAIN procs :
           /\ procs[w].pc \in {"pair", "build"} =>
                  LET mod == Commit(w).modifications[procs[w].mod]
                  IN  (~mod.old_src.parses \/ ~mod.new_src.parses) =>
                          procs[w].pairs = <<>>
           /\ procs[w].pc = "build" =>
                  /\ get_source(procs[w].pairs[procs[w].pair][1]) # None
                  /\ get_source(procs[w].pairs[procs[w].pair][2]) # None
           /\ procs[w].raised => StoreFailures > 0
    /\ \A r \in ReturnedTasks :
           LET c == VcsCommitOf(r.repo, r.hash)
           IN  /\ \A m \in 1..Len(c.modifications) :
                      ModifiedPy(c.modifications[m]) =>
                          \E e \in TaskEvents("extract", r.repo, r.hash) : e.mod = m
               /\ \A mk \in FilteredPairs(c) :
                      \E e \in BuilderCalls :
                          /\ e.repo = r.repo /\ e.hash = r.hash
                          /\ e.mod = mk[1] /\ e.pair = mk[2]

\* C5 witness: a task returned that met a span it could not recover in its
\* first modification and went on to build a later one.
C5_Witness ==
    \E r \in ReturnedTasks :
        LET c == VcsCommitOf(r.repo, r.hash)
        IN  /\ ModifiedPy(c.modifications[1])
            /\ \E k \in 1..Len(PairsOf(c.modifications[1])) :
                   get_source(PairsOf(c.modifications[1])[k][1]) = None
            /\ \E e \in TaskEvents("build", r.repo, r.hash) : e.mod > 1

\* C5 second witness: a task returned that met a side that does not parse
\* in its first modification and went on to build a later one.
C5_WitnessParse ==
    \E r \in ReturnedTasks :
        LET c == VcsCommitOf(r.repo, r.hash)
        IN  /\ ModifiedPy(c.modifications[1])
            /\ ~c.modifications[1].source_code_before.parses
            /\ \E e \in TaskEvents("build", r.repo, r.hash) : e.mod > 1

\* C6: a pair reaches the builder only with two spans that are there, not
\* empty, and differ.  The temporary files exist only around the builder
\* call and hold such spans; every builder call and every stored graph is
\* of such a pair.
C6_OnlyChangedPairsReachBuilder ==
    /\ \A w \in DOMAIN procs :
           /\ procs[w].pc = "build" <=> procs[w].temps # <<>>
           /\ procs[w].temps # <<>> =>
                  /\ SpansDiffer(procs[w].pairs[procs[w].pair])
                  /\ procs[w].temps =
                         <<get_source(procs[w].pairs[procs[w].pair][1]).text,
                           get_source(procs[w].pairs[procs[w].pair][2]).text>>
    /\ \A e \in BuilderCalls :
           /\ e.old # <<>> /\ e.new # <<>> /\ e.old # e.new
           /\ PairPasses(VcsCommitOf(e.repo, e.hash), e.mod, e.pair)
    /\ \A f \in DOMAIN storage :
           \A i \in 1..Len(storage[f].graphs) :
               LET g == storage[f].graphs[i]
               IN  PairPasses(VcsCommitOf(g.repo, g.hash), g.mod, g.pair)

\* C6 witness: a task returned whose first modification has a matched pair
\* with the same text on both sides: no builder call was made for it, and a
\* later pair was built.
C6_Witness ==
    \E r \in ReturnedTasks :
        LET c == VcsCommitOf(r.repo, r.hash)
        IN  /\ ModifiedPy(c.modifications[1])
            /\ Len(PairsOf(c.modifications[1])) = 1
            /\ get_source(PairsOf(c.modifications[1])[1][1])
                   = get_source(PairsOf(c.modifications[1])[1][2])
            /\ Truthy(get_source(PairsOf(c.modifications[1])[1][1]))
            /\ ~\E e \in BuilderCalls : e.repo = r.repo /\ e.hash = r.hash /\ e.mod = 1
            /\ \E e \in TaskEvents("build", r.repo, r.hash) : e.mod = 2

\* C7: a modification that is not `modified`, or has a path not ending in
\* .py, is passed over: no extraction, no pair and no builder call is of such
\* a modification; and a task that returned has extracted every modified
\* .py file of its commit.
C7_OtherModificationsSkipped ==
    /\ \A e \in trace :
           e.ev \in {"extract", "build", "build_error"} =>
               ModifiedPy(VcsCommitOf(e.repo, e.hash).modifications[e.mod])
    /\ \A w \in DOMAIN procs :
           procs[w].pc \in {"pair", "build"} =>
               ModifiedPy(VcsCommitOf(Commit(w).repo.name, Commit(w).hash)
                              .modifications[procs[w].mod])
    /\ \A r \in ReturnedTasks :
           LET c == VcsCommitOf(r.repo, r.hash)
           IN  \A m \in 1..Len(c.modifications) :
                   ModifiedPy(c.modifications[m]) =>
                       \E e \in TaskEvents("extract", r.repo, r.hash) : e.mod = m

\* C7 witness: a task returned whose commit has an added file, a modified
\* file that is no .py file and a renamed .py file before a modified .py
\* file, which was extracted and built.
C7_Witness ==
    \E r \in ReturnedTasks :
        LET c == VcsCommitOf(r.repo, r.hash)
        IN  /\ Len(c.modifications) = 5
            /\ c.modifications[1].change_type = "ADD"
            /\ c.modifications[2].change_type = "MODIFY"
            /\ ~EndsWith(c.modifications[2].new_path, <<".", "p", "y">>)
            /\ c.modifications[3].change_type = "RENAME"
            /\ TaskEvents("extract", r.repo, r.hash) # {}
            /\ \A e \in TaskEvents("extract", r.repo, r.hash) : e.mod = 5
            /\ \E e \in TaskEvents("build", r.repo, r.hash) : e.mod = 5

\* The repository names of the listing that do not start with '_'.
ListedRepos == {n \in Range(listing.names) : Head(n) # "_"}

\* The commit objects of a repository that have a parent.
CommitsWithParent(repo) == {c \in Range(history[repo]) : c.parents > 0}

\* C2 as claimed: a task that fails on a storage failure ends alone.  The
\* pool is terminated only at the regular end of build_change_graphs, and
\* when the run has ended every commit with a parent, of every listed
\* repository, has had its task: it returned, or it is one that failed to
\* store.
C2_TaskFailureIsolated ==
    /\ pool.state = "terminated" => main.pc = "finished"
    /\ (main.pc \in {"finished", "aborted"} /\ listing.ok) =>
           \A repo \in ListedRepos :
               \A c \in CommitsWithParent(repo) :
                   \/ TaskEvents("returned", repo, c.hash) # {}
                   \/ TaskEvents("store_failed", repo, c.hash) # {}

\* C8: a commit without parents gets no record and no task, every other
\* commit exactly one record.  The list _extract_commits returned holds, in
\* history order and numbered from 1, one record for each commit of the
\* repository that has a parent; no queued or running chunk and no event of
\* a task is of a commit without parents.
C8_RootCommitsSkipped ==
    /\ main.pc \in {"map", "wait"} =>
           LET repo == main.repo_names[main.repo_num + 1]
               kept == SelectSeq(history[repo], LAMBDA c : c.parents > 0)
           IN  /\ Len(main.commits) = Len(kept)
               /\ \A i \in 1..Len(kept) :
                      /\ main.commits[i].hash = kept[i].hash
                      /\ main.commits[i].num = i
                      /\ main.commits[i].repo.name = repo
    /\ \A e \in trace : VcsCommitOf(e.repo, e.hash).parents > 0
    /\ \A chunk \in Range(pool.taskqueue) \cup {procs[w].chunk : w \in DOMAIN procs} :
           \A i \in 1..Len(chunk) :
               VcsCommitOf(chunk[i].repo.name, chunk[i].hash).parents > 0

\* C8 witness: a repository with two commits without parents and two with,
\* one of them a merge; two records were made and the merge has its task.
C8_Witness ==
    /\ main.pc = "wait"
    /\ Len(main.commits) = 2
    /\ LET repo == main.repo_names[main.repo_num + 1]
       IN  /\ Cardinality({c \in Range(history[repo]) : c.parents = 0}) = 2
           /\ \E e \in trace :
                  e.ev = "task" /\ e.repo = repo
                  /\ VcsCommitOf(repo, e.hash).parents = 2

RECURSIVE SortBuilt(_)
\* The graphs G of one task in the order they were built.
SortBuilt(G) ==
    IF G = {} THEN <<>>
    ELSE LET g == CHOOSE g \in G : \A h \in G \ {g} : BuiltBefore(g, h)
         IN  <<g>> \o SortBuilt(G \ {g})

\* A list cut into pieces of n.
Pieces(list, n) ==
    {SubSeq(list, (i - 1) * n + 1, Min(i * n, Len(list))) : i \in 1..Ceil(Len(list), n)}

\* The lists of graphs a run stores that ends with the builder results of
\* `trace`: for each commit with a parent, of each listed repository, the
\* graphs built for it, in order, in pieces of the flush threshold.
ExpectedArtifacts ==
    UNION {UNION {Pieces(SortBuilt(BuiltInTask(repo, c.hash)), store_interval) :
                      c \in CommitsWithParent(repo)} : repo \in ListedRepos}

\* C10: the stored result does not depend on recycling, nor on which process
\* ran which task.  When build_change_graphs has ended regularly, the stored
\* lists are those that the commits, the builder's results and the flush
\* threshold alone fix: one file for each.
C10_ResultIndependentOfRecycling ==
    main.pc = "finished" =>
        /\ {storage[f].graphs : f \in DOMAIN storage} = ExpectedArtifacts
        /\ Cardinality(DOMAIN storage) = Cardinality(ExpectedArtifacts)

\* C10 witness: a run ended regularly in which a pool slot was recycled
\* between two files it wrote, and two slots wrote files.
C10_Witness ==
    /\ main.pc = "finished"
    /\ \E f, h \in DOMAIN storage : f[1] = h[1] /\ f[2] # h[2]
    /\ \E f, h \in DOMAIN storage : f[1] # h[1]

\* The repositories of the listing from repository `repo` on.
FromRepoOn(repo) ==
    {listing.names[j] : j \in {j \in 1..Len(listing.names) :
        \E i \in 1..j : listing.names[i] = repo}}

\* C11 as claimed: an enumeration failure stops the run.  When the listing
\* fails nothing is dispatched and the run ends aborted; when the remote URL
\* of a repository cannot be resolved, no task is dispatched for that
\* repository or for one after it.
C11_EnumerationFailureStopsRun ==
    /\ ~listing.ok =>
           /\ main.pc \in {"start", "aborted"}
           /\ pool.state = "none"
           /\ trace = {}
    /\ \A repo \in ListedRepos :
           remote[repo].returncode # 0 =>
               /\ \A e \in trace : e.repo \notin FromRepoOn(repo)
               /\ main.pc \in {"map", "wait"} =>
                      main.repo_names[main.repo_num + 1] \notin FromRepoOn(repo)
               /\ main.pc # "finished"

\* The files of STORAGE_DIR are kept as they are by a step: none is removed
\* or written again, and at most one is new.
FilesKept ==
    /\ \A f \in DOMAIN storage : f \in DOMAIN storage' /\ storage'[f] = storage[f]
    /\ Cardinality(DOMAIN storage' \ DOMAIN storage) <= 1

\* A step changes the record (buffer, position, temporary files) of at most
\* one pool process.
OneProcessMoves ==
    DOMAIN procs' = DOMAIN procs =>
        Cardinality({w \in DOMAIN procs : procs'[w] # procs[w]}) <= 1

\* Every file holds graphs of one task only, all built by the process that
\* wrote the file.
FilesUnmixed ==
    \A f \in DOMAIN storage :
        \A i \in 1..Len(storage[f].graphs) :
            LET g == storage[f].graphs[i]
            IN  /\ g.repo = storage[f].graphs[1].repo
                /\ g.hash = storage[f].graphs[1].hash
                /\ \E e \in trace :
                       /\ e.ev = "build" /\ e.pid = storage[f].pid
                       /\ e.repo = g.repo /\ e.hash = g.hash
                       /\ e.mod = g.mod /\ e.pair = g.pair

\* C12: flushes of different processes never collide.  Every call of
\* _store_change_graphs makes a new file and leaves every other file as it
\* is; a file holds the graphs of the one process that wrote it; and a step
\* of one process changes no other process's buffer.
C12_FlushesNeverCollide ==
    /\ []FilesUnmixed
    /\ [][FilesKept /\ OneProcessMoves]_vars

\* C12 witness: two processes are each inside a task of which they have
\* already written a file.
C12_Witness ==
    \E w, v \in DOMAIN procs :
        /\ w # v
        /\ \A u \in {w, v} :
               /\ procs[u].pc \in {"mod", "pair", "build", "flush"}
               /\ \E f \in DOMAIN storage :
                      /\ storage[f].pid = Pid(u)
                      /\ storage[f].graphs[1].hash = Commit(u).hash
                      /\ storage[f].graphs[1].repo = Commit(u).repo.name

\* The chunks that are queued or in the hands of a pool process.
ChunksOut == Range(pool.taskqueue) \cup {procs[w].chunk : w \in DOMAIN procs}

\* The record holds by itself all of the commit `vc` of repository `repo`
\* that a task works on.
SelfContained(rec, repo, vc) ==
    /\ rec.hash = vc.hash
    /\ rec.msg = vc.msg
    /\ rec.repo = [name |-> repo, path |-> GIT_REPOSITORIES_DIR \o <<"/">> \o repo,
                   url |-> Strip(remote[repo].stdout)]
    /\ Len(rec.modifications) = Len(vc.modifications)
    /\ \A j \in 1..Len(vc.modifications) :
           /\ rec.modifications[j].type = vc.modifications[j].change_type
           /\ rec.modifications[j].old_path = vc.modifications[j].old_path
           /\ rec.modifications[j].new_path = vc.modifications[j].new_path
           /\ rec.modifications[j].old_src = vc.modifications[j].source_code_before
           /\ rec.modifications[j].new_src = vc.modifications[j].source_code

\* C13: the records of a repository are all made before its first task is
\* dispatched, and each is self-contained.  Whenever a chunk is queued or
\* held by a process, the main process is waiting in pool.map with the whole
\* list of that repository's records; each record out is one of that list
\* and holds the commit's hash, message, repository and the modifications
\* with their texts; and what a task has in hand (its pairs, the texts of
\* its temporary files) is what the record alone gives.
C13_MaterializedBeforeDispatch ==
    /\ \A chunk \in ChunksOut :
           \A i \in 1..Len(chunk) :
               /\ main.pc = "wait"
               /\ LET repo == main.repo_names[main.repo_num + 1]
                  IN  /\ Len(main.commits) = Cardinality(CommitsWithParent(repo))
                      /\ \E k \in 1..Len(main.commits) : main.commits[k] = chunk[i]
                      /\ SelfContained(chunk[i], repo, VcsCommitOf(repo, chunk[i].hash))
    /\ \A w \in DOMAIN procs :
           procs[w].pc \in {"pair", "build"} =>
               LET mod == Commit(w).modifications[procs[w].mod]
               IN  /\ procs[w].pairs =
                          _get_methods_mapping(
                              _extract_methods(mod.old_path, mod.old_src),
                              _extract_methods(mod.new_path, mod.new_src))
                   /\ procs[w].pc = "build" =>
                          procs[w].temps =
                              <<get_source(procs[w].pairs[procs[w].pair][1]).text,
                                get_source(procs[w].pairs[procs[w].pair][2]).text>>

\* C13 witness: a process is at the builder call for a record of a
\* repository with two records, while another record is still queued.
C13_Witness ==
    /\ main.pc = "wait"
    /\ Len(main.commits) = 2
    /\ pool.taskqueue # <<>>
    /\ \E w \in DOMAIN procs :
           /\ procs[w].pc = "build"
           /\ Commit(w).repo.url # <<>>
           /\ procs[w].temps[1] # procs[w].temps[2]

\* C14 as claimed: the span of every Method the extractor returns is the
\* text at the position of its syntax node in the original full source text
\* of the file, also when that text begins with blank lines.
C14_SpanOfOriginalText ==
    xpc = "done" =>
        \A i \in 1..Len(xmethods) :
            LET r == get_source_segment(xsrc.text, xmethods[i].ast)
            IN  /\ ~r.raised
                /\ get_source(xmethods[i]) = Some(r.text)

\* The greatest of a set of numbers that is not empty.
Max(S) == CHOOSE x \in S : \A y \in S : y <= x

\* C15: last-seen wins.  An old Method whose qualified name some new Methods
\* have is mapped to the last of these in the order of the new list, in one
\* entry; an old Method whose qualified name no new Method has is no key.
C15_LastSeenWins ==
    xpc = "matched" =>
        LET old_methods == _extract_methods(PathPy(na), xsrc)
            new_methods == _extract_methods(PathPy(nb), xnew)
        IN  \A i \in 1..Len(old_methods) :
                LET at == NamedAt(new_methods, old_methods[i].full_name)
                    entries == {k \in 1..Len(xmapping) : xmapping[k][1] = old_methods[i]}
                IN  IF at = {} THEN entries = {}
                    ELSE /\ Cardinality(entries) = 1
                         /\ \A k \in entries : xmapping[k][2] = new_methods[Max(at)]

\* C15 witness: two new Methods share the qualified name of an old Method
\* that was matched, and another old Method has no match.
C15_Witness ==
    /\ xpc = "matched"
    /\ xmapping # <<>>
    /\ LET old_methods == _extract_methods(PathPy(na), xsrc)
           new_methods == _extract_methods(PathPy(nb), xnew)
       IN  /\ Cardinality(NamedAt(new_methods, xmapping[1][1].full_name)) = 2
           /\ \E i \in 1..Len(old_methods) :
                  NamedAt(new_methods, old_methods[i].full_name) = {}

\* C16 as claimed: the matcher's result has one pair for each qualified
\* name that occurs on both sides.  No two pairs of one modification have
\* old Methods of the same qualified name, and the builder is called at most
\* once for a qualified name of a modification.
C16_OnePairPerQualifiedName ==
    /\ \A w \in DOMAIN procs :
           procs[w].pc \in {"pair", "build"} =>
               \A i, j \in 1..Len(procs[w].pairs) :
                   procs[w].pairs[i][1].full_name = procs[w].pairs[j][1].full_name
                       => i = j
    /\ \A e1, e2 \in BuilderCalls :
           (/\ e1.repo = e2.repo /\ e1.hash = e2.hash
            /\ e1.mod = e2.mod /\ e1.method = e2.method) => e1.pair = e2.pair

\* A process holds its two temporary files at the builder call only.
TempsScoped ==
    \A w \in DOMAIN procs :
        /\ Len(procs[w].temps) \in {0, 2}
        /\ procs[w].temps # <<>> => procs[w].pc = "build"

\* Whatever the step from the builder call is, it releases both files.
TempsReleased ==
    \A w \in DOMAIN procs :
        (procs[w].pc = "build" /\ procs'[w] # procs[w]) => procs'[w].temps = <<>>

\* C17: the two temporary files of a pair are released on every exit path.
\* A process holds none or two, and two only between their creation and the
\* end of the pair's block: after the builder's return, after its failure
\* and after a failed flush none is left, so none is held at the next pair
\* or when the task has ended.
C17_TemporariesReleased ==
    /\ []TempsScoped
    /\ [][TempsReleased]_vars

\* C17 witness: a task in which the builder raised for one pair and the
\* flush inside the block of a later pair failed; the process holds no file.
C17_Witness ==
    \E w \in DOMAIN procs :
        /\ procs[w].raised
        /\ procs[w].temps = <<>>
        /\ \E e, b \in trace :
               /\ e.ev = "store_failed" /\ e.pair > 0 /\ e.pid = Pid(w)
               /\ b.ev = "build_error" /\ b.pid = Pid(w) /\ b.hash = e.hash

\* The buffer of a task that has not raised is below the threshold, and
\* every file holds at least one and at most store_interval graphs.
BufferBounded ==
    /\ \A w \in DOMAIN procs :
           ~procs[w].raised => Len(procs[w].change_graphs) < store_interval
    /\ \A f \in DOMAIN storage :
           /\ Len(storage[f].graphs) >= 1
           /\ Len(storage[f].graphs) <= store_interval

\* A flush at the builder step writes the whole buffer, the new graph last,
\* which is then store_interval long, and leaves the buffer empty.
ThresholdFlush ==
    \A w \in DOMAIN procs :
        (procs[w].pc = "build" /\ procs'[w] # procs[w] /\ storage' # storage) =>
            /\ procs'[w].change_graphs = <<>>
            /\ \E f \in DOMAIN storage' \ DOMAIN storage :
                   /\ Len(storage'[f].graphs) = store_interval
                   /\ SubSeq(storage'[f].graphs, 1, store_interval - 1)
                          = procs[w].change_graphs

\* C18: the buffer is bounded by the flush threshold.  After every
\* add-and-check step the buffer holds fewer than store_interval graphs; the
\* flush at the threshold stores the whole buffer and clears it; every
\* stored file holds from 1 to store_interval graphs.
C18_BufferBounded ==
    /\ []BufferBounded
    /\ [][ThresholdFlush]_vars

\* C18 witness: with a threshold of 3, a task has flushed a full buffer and
\* holds one more graph.
C18_Witness ==
    /\ store_interval = 3
    /\ \E w \in DOMAIN procs :
           /\ Len(procs[w].change_graphs) = 1
           /\ procs[w].pc = "pair"
           /\ \E f \in DOMAIN storage :
                  /\ storage[f].pid = Pid(w)
                  /\ Len(storage[f].graphs) = 3

\* The repositories build_change_graphs is done with: those before the
\* current one in repo_names.
ReposDone == {main.repo_names[i] : i \in 1..main.repo_num}

\* C19: repositories are processed one after another with a barrier.  Every
\* chunk that is queued or run is of the current repository, while the main
\* process waits in pool.map; when the main process is between two maps (at
\* the extraction of the next repository or about to dispatch it) every
\* pool process is idle, nothing is queued, and every task of the
\* repositories done so far has returned.
C19_RepositoryBarrier ==
    /\ \A chunk \in ChunksOut :
           \A i \in 1..Len(chunk) :
               /\ main.pc = "wait"
               /\ chunk[i].repo.name = main.repo_names[main.repo_num + 1]
    /\ main.pc \in {"repo", "map", "finished"} =>
           /\ pool.taskqueue = <<>>
           /\ \A w \in DOMAIN procs : procs[w].pc = "idle"
           /\ \A repo \in ReposDone :
                  \A c \in CommitsWithParent(repo) :
                      TaskEvents("returned", repo, c.hash) # {}
           /\ \A e \in trace : e.repo \in ReposDone

\* C19 witness: a task of the second repository is running after the two
\* tasks of the first one, run by two processes, have returned.
C19_Witness ==
    /\ main.pc = "wait"
    /\ main.repo_num = 1
    /\ \E w \in DOMAIN procs : procs[w].pc = "build"
    /\ \E e1, e2 \in trace :
           /\ e1.ev = "returned" /\ e2.ev = "returned"
           /\ e1.repo = main.repo_names[1] /\ e2.repo = main.repo_names[1]
           /\ e1.pid[1] # e2.pid[1]

\* Tasks of one repository finish in any order: the task of a later record
\* has returned while that of an earlier one is still running.
C19_WitnessAnyOrder ==
    \E w \in DOMAIN procs :
        /\ procs[w].pc \in {"mod", "pair", "build", "flush"}
        /\ \E e \in trace :
               /\ e.ev = "returned"
               /\ e.repo = Commit(w).repo.name
               /\ e.hash > Commit(w).hash

\* The number of places at which record `rec` is queued or held.
PlacesOut(rec) ==
    Cardinality({qi \in (1..Len(pool.taskqueue)) \X (1..Len(main.commits)) :
                    /\ qi[2] <= Len(pool.taskqueue[qi[1]])
                    /\ pool.taskqueue[qi[1]][qi[2]] = rec})
    + Cardinality({wi \in (DOMAIN procs) \X (1..Len(main.commits)) :
                      /\ wi[2] <= Len(procs[wi[1]].chunk)
                      /\ procs[wi[1]].chunk[wi[2]] = rec})

\* C20: in a run without failures every directory not marked with '_' is
\* processed once, a marked one never, and every record is handled by one
\* task once.  repo_names is the listing without the marked names, in
\* order; no event is of a marked directory; the records of the current
\* repository are numbered 1, 2, ... in history order; while the pool works
\* on them each record either waits at exactly one place or has returned,
\* never both, and was begun by at most one process; and at the end every
\* record of every listed repository has returned.
C20_EachRepositoryAndCommitOnce ==
    (listing.ok /\ StoreFailures = 0) =>
        /\ main.pc # "start" =>
               /\ Len(main.repo_names) = Cardinality(ListedRepos)
               /\ Range(main.repo_names) = ListedRepos
               /\ main.repo_names = SelectSeq(listing.names, LAMBDA n : n \in ListedRepos)
        /\ \A e \in trace : e.repo \in ListedRepos
        /\ main.pc # "aborted"
        /\ main.pc = "wait" =>
               LET repo == main.repo_names[main.repo_num + 1]
               IN  \A k \in 1..Len(main.commits) :
                       LET rec == main.commits[k]
                           returned == TaskEvents("returned", repo, rec.hash)
                       IN  /\ rec.num = k
                           /\ \A j \in 1..Len(main.commits) :
                                  j < k => main.commits[j].hash < rec.hash
                           /\ PlacesOut(rec) + Cardinality(returned) = 1
                           /\ Cardinality(TaskEvents("task", repo, rec.hash)) <= 1
        /\ main.pc = "finished" =>
               /\ main.repo_num = Len(main.repo_names)
               /\ \A repo \in ListedRepos :
                      \A c \in CommitsWithParent(repo) :
                          /\ Cardinality(TaskEvents("returned", repo, c.hash)) = 1
                          /\ Cardinality(TaskEvents("task", repo, c.hash)) = 1

\* C20 witness: a run has ended without failure over a listing with a
\* marked directory, the first repository having five records.
C20_Witness ==
    /\ main.pc = "finished"
    /\ StoreFailures = 0
    /\ \E i \in 1..Len(listing.names) : Head(listing.names[i]) = "_"
    /\ Cardinality({e \in trace : e.ev = "returned" /\ e.repo = main.repo_names[1]}) = 5
    /\ Cardinality({e \in trace : e.ev = "returned" /\ e.repo = main.repo_names[2]}) = 1

=============================================================================
